---- MODULE Spec2Model ----
(***************************************************************************)
(* Model of src/client/client.py: RateLimitContext (token bucket, lock and *)
(* semaphore), AsyncClient._get / _handle and Requestor (parameter check,   *)
(* queued pre-tasks, cache lookup, default value).                          *)
(*                                                                         *)
(* Coroutines are processes; every `await` that can suspend is a step.     *)
(* Time: RateLimitContext._rate = max_calls / period tokens per second.    *)
(* The clock is counted in ticks of 1/(Res * _rate) seconds and the token  *)
(* balance in units of 1/Res token, so one tick refills one unit           *)
(* (elapsed * _rate becomes the number of elapsed ticks).                  *)
(***************************************************************************)
EXTENDS Integers, Sequences, FiniteSets, TLC

\* ---------------------------------------------------------------- bounds
NProcs == 3
MaxCalls == 2
Res == 1
MaxWeight == 3
MaxUsed == 3
MaxConcurrency == 2
MaxLen == 1
MaxTasks == 2
MaxArg == 5

Procs == 1..NProcs
\* the coroutine that drives the Requestor instance
Caller == CHOOSE p \in Procs : TRUE
Weights == 0..MaxWeight
UsedVals == 0..MaxUsed

Min(a, b) == IF a < b THEN a ELSE b
Max(a, b) == IF a > b THEN a ELSE b

\* self._max_calls in token units
Capacity == MaxCalls * Res
\* lowest balance set_used_tokens / a debit can leave behind
MinTokens == Capacity - Max(MaxUsed, MaxWeight) * Res
\* beyond this many ticks min(tokens + elapsed * rate, max_calls) no longer
\* depends on elapsed, so the age of _last is counted no further
MaxElapsed == MaxWeight * Res - MinTokens

\* ---------------------------------------------------------------- values
\* results of _request_func / cache entries: None or a list
NoneVal == [kind |-> "none", items |-> <<>>]
ListVal(s) == [kind |-> "list", items |-> s]
Values == {NoneVal} \cup {ListVal([i \in 1..n |-> 1]) : n \in 0..MaxLen}
\* Python truthiness, `not resp`
Falsy(v) == v.kind = "none" \/ (v.kind = "list" /\ v.items = <<>>)
\* no entry in the cache
NoEntry == [kind |-> "absent", items |-> <<>>]
\* exceptions a call ends with
ConfigError == [kind |-> "RuntimeError: Required params not set", items |-> <<>>]
ReuseError == [kind |-> "RuntimeError: cannot reuse already awaited coroutine", items |-> <<>>]
TransportError == [kind |-> "httpx.RequestError", items |-> <<>>]
NoResult == [kind |-> "pending", items |-> <<>>]

\* parameter keys; params is the set of keys present in the dict
Keys == {"symbol", "limit", "opt"}
\* Requestor.__required_params
RequiredParams == <<"symbol", "limit">>

VARIABLES
  tokens,      \* RateLimitContext._tokens (units of 1/Res token)
  sinceLast,   \* time.monotonic() - RateLimitContext._last, in ticks
  lockHolder,  \* _lock: the coroutine holding it, 0 when free
  lockQ,       \* _lock: FIFO of waiting coroutines
  semHeld,     \* _semaphore: coroutines holding a slot
  semQ,        \* _semaphore: FIFO of waiting coroutines
  pc,          \* position of each coroutine
  ctx,         \* the outermost call each coroutine is running
  weight,      \* argument of limit_request
  used,        \* argument of set_used_tokens
  wake,        \* ticks left of the sleep requested at line 45
  response,    \* the response a client call handed to _handle
  got,         \* what _handle returned for it
  afterFull,   \* set_used_tokens(max_calls) just set _tokens with no other call
               \* under way, and no time has passed since
  ctor,        \* the last RateLimitContext(max_calls, period) construction
  steps,       \* what the _get in progress has done so far, in order
  params,      \* Requestor.params
  tasks,       \* Requestor.__async_tasks: per coroutine, whether it was awaited
  saveFlag,    \* Requestor._save
  defaultVal,  \* Requestor._default_return_value
  cache,       \* the DatabaseManager's store for this namespace
  taskIdx,     \* position of the loop at line 246
  saveArg,     \* the save argument fetch_encoded was called with
  resp,        \* resp of line 249
  ret,         \* what the last Requestor call returned or raised
  retIsDefault,\* whether ret is the very object stored as the default
  retFresh,    \* whether ret is still as it was returned
  log,         \* collaborator calls made by the current / last Requestor call
  cur,         \* the current / last Requestor call and the state it started in
  prev         \* the Requestor call completed before that

gateVars == <<tokens, sinceLast, lockHolder, lockQ, semHeld, semQ>>
procVars == <<pc, ctx, weight, used, wake, steps>>
respVars == <<response, got>>
reqVars == <<params, tasks, saveFlag, defaultVal, cache>>
callVars == <<taskIdx, saveArg, resp, ret, retIsDefault, retFresh, log, cur, prev>>
vars == <<gateVars, procVars, respVars, afterFull, ctor, reqVars, callVars>>

\* ------------------------------------------------ RateLimitContext.__init__
\* lines 20-26: nothing is validated; max_calls / period divides by zero
\* when period is 0, otherwise the object is built whatever the signs
GateInit(mc, per) ==
  IF per = 0
    THEN [state |-> "ZeroDivisionError", max_calls |-> mc, period |-> per, tokens |-> 0]
    ELSE [state |-> "built", max_calls |-> mc, period |-> per, tokens |-> mc]

\* somebody constructs RateLimitContext(mc, per)
Construct(mc, per) ==
  /\ ctor' = GateInit(mc, per)
  /\ UNCHANGED <<gateVars, procVars, respVars, afterFull, reqVars, callVars>>

\* the gate of the client: RateLimitContext(MaxCalls, 1)
InitGate ==
  /\ ctor = GateInit(MaxCalls, 1)
  /\ afterFull = FALSE
  /\ tokens = Capacity
  /\ sinceLast = 0
  /\ lockHolder = 0
  /\ lockQ = <<>>
  /\ semHeld = {}
  /\ semQ = <<>>

InitProcs ==
  /\ pc = [p \in Procs |-> "idle"]
  /\ ctx = [p \in Procs |-> "none"]
  /\ weight = [p \in Procs |-> 1]
  /\ used = [p \in Procs |-> 0]
  /\ wake = [p \in Procs |-> 0]
  /\ steps = [p \in Procs |-> <<>>]
  /\ response = [p \in Procs |-> "none"]
  /\ got = [p \in Procs |-> "none"]

\* where a coroutine continues after limit_request returns
AfterAcquire(p) == IF ctx[p] = "acquire" THEN "idle" ELSE "g_handle"
\* where a coroutine continues after set_used_tokens returns
AfterSetUsed(p) == IF ctx[p] = "setused" THEN "idle" ELSE "a_sem"
\* where a coroutine continues after _get returns
AfterGet(p) == IF ctx[p] \in {"get", "verb"} THEN "idle" ELSE "r_computed"

\* a refill that forgets the elapsed time
RefillNothing(t, elapsed) == Min(t, Capacity)

\* min(self._tokens + elapsed * self._rate, self._max_calls)
Refill(t, elapsed) == Min(t + elapsed, Capacity)

\* a lock that lets everybody in
LockNeverHeld == TRUE

\* asyncio.Lock.acquire: taken at once when free and nobody queues
LockFree == lockHolder = 0 /\ lockQ = <<>>
\* asyncio.Semaphore.acquire: taken at once when a slot is free and nobody queues
SemFree == Cardinality(semHeld) < MaxConcurrency /\ semQ = <<>>

\* a coroutine calls limit_request(w) on the gate
CallAcquire(p, w) ==
  /\ pc[p] = "idle"
  /\ pc' = [pc EXCEPT ![p] = "a_sem"]
  /\ ctx' = [ctx EXCEPT ![p] = "acquire"]
  /\ weight' = [weight EXCEPT ![p] = w]
  /\ UNCHANGED <<gateVars, used, wake, steps, reqVars, callVars>>
  /\ UNCHANGED <<respVars, afterFull, ctor>>

\* limit_request: async with self._semaphore
SemAcquire(p) ==
  /\ pc[p] = "a_sem"
  /\ IF SemFree
       THEN /\ semHeld' = semHeld \cup {p}
            /\ pc' = [pc EXCEPT ![p] = "a_lock"]
            /\ UNCHANGED semQ
       ELSE /\ semQ' = Append(semQ, p)
            /\ pc' = [pc EXCEPT ![p] = "a_semw"]
            /\ UNCHANGED semHeld
  /\ UNCHANGED <<tokens, sinceLast, lockHolder, lockQ>>
  /\ UNCHANGED <<ctx, weight, used, wake, steps, reqVars, callVars>>
  /\ UNCHANGED <<respVars, afterFull, ctor>>

\* limit_request: the semaphore wakes its first waiter
SemGrant(p) ==
  /\ pc[p] = "a_semw"
  /\ semQ # <<>> /\ Head(semQ) = p
  /\ Cardinality(semHeld) < MaxConcurrency
  /\ semHeld' = semHeld \cup {p}
  /\ semQ' = Tail(semQ)
  /\ pc' = [pc EXCEPT ![p] = "a_lock"]
  /\ UNCHANGED <<tokens, sinceLast, lockHolder, lockQ>>
  /\ UNCHANGED <<ctx, weight, used, wake, steps, reqVars, callVars>>
  /\ UNCHANGED <<respVars, afterFull, ctor>>

\* _acquire_token / set_used_tokens: async with self._lock
LockAcquire(p) ==
  /\ pc[p] \in {"a_lock", "u_lock"}
  /\ IF LockFree
       THEN /\ lockHolder' = p
            /\ pc' = [pc EXCEPT ![p] = IF pc[p] = "a_lock" THEN "a_body" ELSE "u_body"]
            /\ UNCHANGED lockQ
       ELSE /\ lockQ' = Append(lockQ, p)
            /\ pc' = [pc EXCEPT ![p] = IF pc[p] = "a_lock" THEN "a_lockw" ELSE "u_lockw"]
            /\ UNCHANGED lockHolder
  /\ UNCHANGED <<tokens, sinceLast, semHeld, semQ>>
  /\ UNCHANGED <<ctx, weight, used, wake, steps, reqVars, callVars>>
  /\ UNCHANGED <<respVars, afterFull, ctor>>

\* the lock wakes its first waiter
LockGrant(p) ==
  /\ pc[p] \in {"a_lockw", "u_lockw"}
  /\ lockHolder = 0
  /\ lockQ # <<>> /\ Head(lockQ) = p
  /\ lockHolder' = p
  /\ lockQ' = Tail(lockQ)
  /\ pc' = [pc EXCEPT ![p] = IF pc[p] = "a_lockw" THEN "a_body" ELSE "u_body"]
  /\ UNCHANGED <<tokens, sinceLast, semHeld, semQ>>
  /\ UNCHANGED <<ctx, weight, used, wake, steps, reqVars, callVars>>
  /\ UNCHANGED <<respVars, afterFull, ctor>>

\* self._tokens -= required_tokens
Debit(t, w) == t - w * Res

\* a return that forgets to leave the lock
AcquireReturnKeepsLock(p) ==
  /\ lockHolder' = lockHolder
  /\ semHeld' = semHeld \ {p}
  /\ pc' = [pc EXCEPT ![p] = AfterAcquire(p)]
  /\ weight' = [weight EXCEPT ![p] = 1]
  /\ ctx' = [ctx EXCEPT ![p] = IF ctx[p] = "acquire" THEN "none" ELSE ctx[p]]
  /\ steps' = [steps EXCEPT ![p] = IF ctx[p] = "acquire" THEN <<>> ELSE Append(steps[p], "acquire")]

\* what limit_request leaves behind when it returns to its caller
AcquireReturn(p) ==
  /\ lockHolder' = 0
  /\ semHeld' = semHeld \ {p}
  /\ pc' = [pc EXCEPT ![p] = AfterAcquire(p)]
  /\ weight' = [weight EXCEPT ![p] = 1]
  /\ ctx' = [ctx EXCEPT ![p] = IF ctx[p] = "acquire" THEN "none" ELSE ctx[p]]
  /\ steps' = [steps EXCEPT ![p] = IF ctx[p] = "acquire" THEN <<>> ELSE Append(steps[p], "acquire")]

\* _acquire_token lines 38-45 and, when no sleep is needed, line 50 with the
\* exits of both context managers
AcquireToken(p) ==
  /\ pc[p] = "a_body"
  /\ lockHolder = p
  /\ sinceLast' = 0
  /\ LET t == Refill(tokens, sinceLast) IN
       IF t < weight[p] * Res
         THEN /\ tokens' = t
              /\ wake' = [wake EXCEPT ![p] = weight[p] * Res - t]
              /\ pc' = [pc EXCEPT ![p] = "a_sleep"]
              /\ UNCHANGED <<lockHolder, semHeld, weight, ctx, steps>>
         ELSE /\ tokens' = Debit(t, weight[p])
              /\ AcquireReturn(p)
              /\ UNCHANGED wake
  /\ afterFull' = FALSE
  /\ UNCHANGED <<lockQ, semQ, used, reqVars, callVars>>
  /\ UNCHANGED <<respVars, ctor>>

\* _acquire_token lines 46-50 after the sleep, and the exits of both
\* context managers
AcquireWake(p) ==
  /\ pc[p] = "a_sleep"
  /\ wake[p] = 0
  /\ sinceLast' = 0
  /\ tokens' = Debit(Refill(tokens, sinceLast), weight[p])
  /\ AcquireReturn(p)
  /\ afterFull' = FALSE
  /\ UNCHANGED <<lockQ, semQ, used, wake, reqVars, callVars>>
  /\ UNCHANGED <<respVars, ctor>>

\* a coroutine calls set_used_tokens(u) on the gate
CallSetUsed(p, u) ==
  /\ pc[p] = "idle"
  /\ pc' = [pc EXCEPT ![p] = "u_lock"]
  /\ ctx' = [ctx EXCEPT ![p] = "setused"]
  /\ used' = [used EXCEPT ![p] = u]
  /\ UNCHANGED <<gateVars, weight, wake, steps, reqVars, callVars>>
  /\ UNCHANGED <<respVars, afterFull, ctor>>

\* set_used_tokens line 30 and the exit of the lock
SetUsedTokens(p) ==
  /\ pc[p] = "u_body"
  /\ lockHolder = p
  /\ tokens' = Capacity - used[p] * Res
  /\ afterFull' = (used[p] = MaxCalls /\ \A q \in Procs \ {p} : pc[q] = "idle")
  /\ lockHolder' = 0
  /\ pc' = [pc EXCEPT ![p] = AfterSetUsed(p)]
  /\ used' = [used EXCEPT ![p] = 0]
  /\ ctx' = [ctx EXCEPT ![p] = IF ctx[p] = "setused" THEN "none" ELSE ctx[p]]
  /\ steps' = [steps EXCEPT ![p] = IF ctx[p] = "setused" THEN <<>> ELSE Append(steps[p], "adjust")]
  /\ UNCHANGED <<sinceLast, lockQ, semHeld, semQ, weight, wake, reqVars, callVars>>
  /\ UNCHANGED <<respVars, ctor>>

\* time.monotonic() advances by one tick; pending sleeps come one tick
\* closer to their deadline (asyncio.sleep suspends for at least the delay)
Tick ==
  /\ sinceLast' = Min(sinceLast + 1, MaxElapsed)
  /\ wake' = [p \in Procs |-> Max(wake[p] - 1, 0)]
  /\ UNCHANGED <<tokens, lockHolder, lockQ, semHeld, semQ>>
  /\ UNCHANGED <<pc, ctx, weight, used, steps, reqVars, callVars>>
  /\ afterFull' = FALSE
  /\ UNCHANGED <<respVars, ctor>>

\* ------------------------------------------------------- AsyncClient._get
\* a coroutine calls get on the client
CallGet(p) ==
  /\ pc[p] = "idle"
  /\ pc' = [pc EXCEPT ![p] = "g_net"]
  /\ ctx' = [ctx EXCEPT ![p] = "get"]
  /\ UNCHANGED <<gateVars, weight, used, wake, steps, reqVars, callVars>>
  /\ UNCHANGED <<respVars, afterFull, ctor>>

\* line 111: self._session.get(url) sends the request
SessionGet(p) ==
  /\ pc[p] = "g_net"
  /\ pc' = [pc EXCEPT ![p] = "g_inflight"]
  /\ steps' = [steps EXCEPT ![p] = Append(steps[p], "net")]
  /\ UNCHANGED <<gateVars, ctx, weight, used, wake, reqVars, callVars>>
  /\ UNCHANGED <<respVars, afterFull, ctor>>

\* line 111: the response arrives, or the session raises
\* httpx.RequestError (connection failure, timeout) and no response exists
SessionResponse(p) ==
  /\ pc[p] = "g_inflight"
  /\ \/ pc' = [pc EXCEPT ![p] = IF ctx[p] = "verb" THEN "g_handle" ELSE "g_adjust"]
     \/ pc' = [pc EXCEPT ![p] = "x_raised"]
  /\ UNCHANGED <<gateVars, ctx, weight, used, wake, steps, reqVars, callVars>>
  /\ UNCHANGED <<respVars, afterFull, ctor>>

\* line 112: adjust_rate_limit(response.headers) is abstract; a subclass
\* reads the headers and either leaves the gate alone or calls
\* set_used_tokens; line 113 follows with limit_request()
AdjustRateLimit(p) ==
  /\ pc[p] = "g_adjust"
  /\ \/ /\ pc' = [pc EXCEPT ![p] = "a_sem"]
        /\ steps' = [steps EXCEPT ![p] = Append(steps[p], "adjust")]
        /\ UNCHANGED used
     \/ \E u \in UsedVals :
          /\ pc' = [pc EXCEPT ![p] = "u_lock"]
          /\ used' = [used EXCEPT ![p] = u]
          /\ UNCHANGED steps
  /\ UNCHANGED <<gateVars, ctx, weight, wake, reqVars, callVars>>
  /\ UNCHANGED <<respVars, afterFull, ctor>>

\* what raise_for_status finds: a status below 400, a status of 400 or
\* above, or a response it cannot check (no request attached)
Responses == {"status < 400", "status >= 400", "unchecked"}

\* _handle lines 131-148: the response is returned at line 134 when
\* raise_for_status passes and at line 148 after HTTPStatusError or any
\* other Exception was caught and logged
HandleResult(r) ==
  CASE r = "status < 400" -> r
    [] r = "status >= 400" -> r
    [] r = "unchecked" -> r

\* lines 94 / 98 / 114 / 119 / 124 / 129: await self._handle(response); the
\* status of the response is first looked at here
Handle(p) ==
  /\ pc[p] = "g_handle"
  /\ \E r \in Responses :
       /\ response' = [response EXCEPT ![p] = r]
       /\ got' = [got EXCEPT ![p] = HandleResult(r)]
  /\ pc' = [pc EXCEPT ![p] = "g_done"]
  /\ steps' = [steps EXCEPT ![p] = Append(steps[p], "handle")]
  /\ UNCHANGED <<gateVars, ctx, weight, used, wake, reqVars, callVars>>
  /\ UNCHANGED <<afterFull, ctor>>

\* the client call returns what _handle returned
ClientReturn(p) ==
  /\ pc[p] = "g_done"
  /\ pc' = [pc EXCEPT ![p] = AfterGet(p)]
  /\ ctx' = [ctx EXCEPT ![p] = IF ctx[p] \in {"get", "verb"} THEN "none" ELSE ctx[p]]
  /\ steps' = [steps EXCEPT ![p] = IF ctx[p] \in {"get", "verb"} THEN <<>> ELSE steps[p]]
  /\ response' = [response EXCEPT ![p] = "none"]
  /\ got' = [got EXCEPT ![p] = "none"]
  /\ UNCHANGED <<gateVars, weight, used, wake, reqVars, callVars>>
  /\ UNCHANGED <<afterFull, ctor>>

\* a coroutine calls post, put or delete on the client: lines 92-98 and
\* 116-129 go to the session at once, without the gate
CallVerb(p) ==
  /\ pc[p] = "idle"
  /\ pc' = [pc EXCEPT ![p] = "g_net"]
  /\ ctx' = [ctx EXCEPT ![p] = "verb"]
  /\ UNCHANGED <<gateVars, weight, used, wake, steps, reqVars, callVars>>
  /\ UNCHANGED <<respVars, afterFull, ctor>>

\* ---------------------------------------------------- DatabaseManager
\* contains_encoded(namespace, params)
CacheContains(c, ps) == c[ps] # NoEntry
\* delete_encoded(namespace, params)
CacheDelete(c, ps) == [c EXCEPT ![ps] = NoEntry]
\* fetch_encoded stores the result of the compute function when save is set
CacheStore(c, ps, v, save) == IF save THEN [c EXCEPT ![ps] = v] ELSE c

\* -------------------------------------------------------------- Requestor
NoCall == [op |-> "none", params |-> {}, save |-> TRUE, entry |-> NoEntry, queued |-> 0]
NoPrev == [op |-> "none", params |-> {}, save |-> TRUE, computed |-> FALSE,
           stored |-> NoEntry, raised |-> FALSE]

\* Requestor.__init__
InitReq ==
  /\ params = {}
  /\ tasks = <<>>
  /\ saveFlag = TRUE
  /\ defaultVal \in Values
  /\ cache = [ps \in SUBSET Keys |-> NoEntry]
  /\ taskIdx = 1
  /\ saveArg = TRUE
  /\ resp = NoResult
  /\ ret = NoResult
  /\ retIsDefault = FALSE
  /\ retFresh = TRUE
  /\ log = <<>>
  /\ cur = NoCall
  /\ prev = NoPrev

\* a check satisfied by any one required key
HasSomeRequiredParam(ps) == \E i \in DOMAIN RequiredParams : RequiredParams[i] \in ps

\* Requestor.__has_required_params
HasRequiredParams(ps) == \A i \in DOMAIN RequiredParams : RequiredParams[i] \in ps

InLog(e) == \E i \in DOMAIN log : log[i] = e

\* the record kept of a call once the next one starts
Summary ==
  [op |-> cur.op, params |-> cur.params, save |-> cur.save,
   computed |-> InLog("compute"),
   stored |-> IF InLog("store") THEN resp ELSE NoEntry,
   raised |-> ret \in {ConfigError, ReuseError, TransportError}]

\* the state a call starts in
Started(op) ==
  [op |-> op, params |-> params, save |-> saveFlag, entry |-> cache[params],
   queued |-> Cardinality({i \in DOMAIN tasks : ~tasks[i]})]

\* between calls the caller reconfigures the requestor; what the previous
\* call returned is dropped and no longer observed
Forget ==
  /\ taskIdx' = 1
  /\ saveArg' = TRUE
  /\ resp' = NoResult
  /\ ret' = NoResult
  /\ retIsDefault' = FALSE
  /\ retFresh' = TRUE
  /\ log' = <<>>
  /\ cur' = NoCall
  /\ prev' = NoPrev

\* self.params[k] = ... by the caller
SetParam(p, k) ==
  /\ pc[p] = "idle"
  /\ k \notin params
  /\ params' = params \cup {k}
  /\ Forget
  /\ UNCHANGED <<gateVars, procVars, tasks, saveFlag, defaultVal, cache>>
  /\ UNCHANGED <<respVars, afterFull, ctor>>

\* del self.params[k] by the caller
DelParam(p, k) ==
  /\ pc[p] = "idle"
  /\ k \in params
  /\ params' = params \ {k}
  /\ Forget
  /\ UNCHANGED <<gateVars, procVars, tasks, saveFlag, defaultVal, cache>>
  /\ UNCHANGED <<respVars, afterFull, ctor>>

\* Requestor.save
Save(p, b) ==
  /\ pc[p] = "idle"
  /\ saveFlag' = b
  /\ Forget
  /\ UNCHANGED <<gateVars, procVars, params, tasks, defaultVal, cache>>
  /\ UNCHANGED <<respVars, afterFull, ctor>>

\* Requestor.delete_from_db: the coroutine delete_encoded(namespace,
\* self.params) is created and queued, not yet run
DeleteFromDb(p) ==
  /\ pc[p] = "idle"
  /\ Len(tasks) < MaxTasks
  /\ tasks' = IF HasRequiredParams(params) THEN Append(tasks, FALSE) ELSE tasks
  /\ taskIdx' = 1
  /\ saveArg' = TRUE
  /\ resp' = NoResult
  /\ ret' = NoResult
  /\ retIsDefault' = FALSE
  /\ retFresh' = TRUE
  /\ log' = <<>>
  /\ cur' = Started("delete_from_db")
  /\ prev' = NoPrev
  /\ UNCHANGED <<gateVars, procVars, params, saveFlag, defaultVal, cache>>
  /\ UNCHANGED <<respVars, afterFull, ctor>>

\* the caller appends to the list it was handed
MutateResult(p) ==
  /\ pc[p] = "idle"
  /\ ret.kind = "list"
  /\ Len(ret.items) < MaxLen
  /\ ret' = ListVal(Append(ret.items, 1))
  /\ retFresh' = FALSE
  /\ defaultVal' = IF retIsDefault THEN ListVal(Append(ret.items, 1)) ELSE defaultVal
  /\ UNCHANGED <<gateVars, procVars, params, tasks, saveFlag, cache>>
  /\ UNCHANGED <<taskIdx, saveArg, resp, retIsDefault, log, cur, prev>>
  /\ UNCHANGED <<respVars, afterFull, ctor>>

\* handing out the stored object itself
SameObject(v) == [val |-> v, isDefault |-> TRUE]

\* copy.deepcopy: an equal value in a new object
DeepCopy(v) == [val |-> v, isDefault |-> FALSE]

\* returning resp whatever it is
RequestResultRaw(r) == [val |-> r, isDefault |-> FALSE]

\* request lines 255-258
RequestResult(r) ==
  IF Falsy(r) THEN DeepCopy(defaultVal) ELSE [val |-> r, isDefault |-> FALSE]

\* what request_only hands back when request returned r: nothing
RequestOnlyResult(r) == [val |-> NoneVal, isDefault |-> FALSE]

\* the call of coroutine p ends with result r
Finish(p, r) ==
  /\ pc' = [pc EXCEPT ![p] = "idle"]
  /\ ctx' = [ctx EXCEPT ![p] = "none"]
  /\ ret' = r.val
  /\ retIsDefault' = r.isDefault
  /\ retFresh' = TRUE

Raise(p, e) == Finish(p, [val |-> e, isDefault |-> FALSE])

\* request returns r to its caller, which is request_only or the user
Return(p, r) ==
  Finish(p, IF ctx[p] = "request_only" THEN RequestOnlyResult(r) ELSE r)

\* the exception raised by the session leaves the client call: to the
\* caller of get / post / put / delete, or through _request_func and
\* fetch_encoded out of request()
Propagate(p) ==
  /\ pc[p] = "x_raised"
  /\ steps' = [steps EXCEPT ![p] = <<>>]
  /\ IF ctx[p] \in {"get", "verb"}
       THEN /\ pc' = [pc EXCEPT ![p] = "idle"]
            /\ ctx' = [ctx EXCEPT ![p] = "none"]
            /\ UNCHANGED <<ret, retIsDefault, retFresh, log>>
       ELSE /\ Raise(p, TransportError)
            /\ log' = log \o steps[p]
  /\ UNCHANGED <<gateVars, weight, used, wake, reqVars>>
  /\ UNCHANGED <<taskIdx, saveArg, resp, cur, prev>>
  /\ UNCHANGED <<respVars, afterFull, ctor>>

\* the caller calls request()
Request(p) ==
  /\ pc[p] = "idle"
  /\ prev' = Summary
  /\ cur' = Started("request")
  /\ log' = <<>>
  /\ resp' = NoResult
  /\ IF ~HasRequiredParams(params)
       THEN /\ Raise(p, ConfigError)
            /\ UNCHANGED taskIdx
       ELSE /\ pc' = [pc EXCEPT ![p] = IF tasks # <<>> THEN "r_tasks" ELSE "r_fetch"]
            /\ ctx' = [ctx EXCEPT ![p] = "request"]
            /\ taskIdx' = 1
            /\ ret' = NoResult
            /\ retIsDefault' = FALSE
            /\ retFresh' = TRUE
  /\ UNCHANGED <<gateVars, weight, used, wake, steps, reqVars, saveArg>>
  /\ UNCHANGED <<respVars, afterFull, ctor>>

\* the caller calls request_only()
RequestOnly(p) ==
  /\ pc[p] = "idle"
  /\ prev' = Summary
  /\ cur' = Started("request_only")
  /\ log' = <<>>
  /\ resp' = NoResult
  /\ pc' = [pc EXCEPT ![p] = "ro_contains"]
  /\ ctx' = [ctx EXCEPT ![p] = "request_only"]
  /\ ret' = NoResult
  /\ retIsDefault' = FALSE
  /\ retFresh' = TRUE
  /\ UNCHANGED <<gateVars, weight, used, wake, steps, reqVars, taskIdx, saveArg>>
  /\ UNCHANGED <<respVars, afterFull, ctor>>

\* the save argument of line 253 stuck at False
SaveArgumentOff == FALSE

\* request line 253: the save argument handed to fetch_encoded
SaveArgument == saveFlag

\* a request_only that calls request() whatever contains_encoded answers
ContainsIgnored(p) ==
  /\ pc[p] = "ro_contains"
  /\ log' = Append(log, "contains")
  /\ IF ~HasRequiredParams(params)
       THEN /\ Raise(p, ConfigError)
            /\ UNCHANGED taskIdx
       ELSE /\ pc' = [pc EXCEPT ![p] = IF tasks # <<>> THEN "r_tasks" ELSE "r_fetch"]
            /\ taskIdx' = 1
            /\ UNCHANGED <<ctx, ret, retIsDefault, retFresh>>
  /\ UNCHANGED <<gateVars, weight, used, wake, steps, reqVars, saveArg, resp, cur, prev>>
  /\ UNCHANGED <<respVars, afterFull, ctor>>

\* request_only lines 235-237: contains_encoded answers, then request()
\* runs up to its first await
Contains(p) ==
  /\ pc[p] = "ro_contains"
  /\ log' = Append(log, "contains")
  /\ IF CacheContains(cache, params)
       THEN /\ Finish(p, [val |-> NoneVal, isDefault |-> FALSE])
            /\ UNCHANGED taskIdx
       ELSE IF ~HasRequiredParams(params)
              THEN /\ Raise(p, ConfigError)
                   /\ UNCHANGED taskIdx
              ELSE /\ pc' = [pc EXCEPT ![p] = IF tasks # <<>> THEN "r_tasks" ELSE "r_fetch"]
                   /\ taskIdx' = 1
                   /\ UNCHANGED <<ctx, ret, retIsDefault, retFresh>>
  /\ UNCHANGED <<gateVars, weight, used, wake, steps, reqVars, saveArg, resp, cur, prev>>
  /\ UNCHANGED <<respVars, afterFull, ctor>>

\* request lines 246-247: await t for the next queued coroutine; awaiting a
\* coroutine a second time raises RuntimeError
AwaitTask(p) ==
  /\ pc[p] = "r_tasks"
  /\ IF tasks[taskIdx]
       THEN /\ Raise(p, ReuseError)
            /\ UNCHANGED <<tasks, cache, taskIdx, log>>
       ELSE /\ cache' = CacheDelete(cache, params)
            /\ tasks' = [tasks EXCEPT ![taskIdx] = TRUE]
            /\ taskIdx' = taskIdx + 1
            /\ log' = Append(log, "delete")
            /\ pc' = [pc EXCEPT ![p] = IF taskIdx < Len(tasks) THEN "r_tasks" ELSE "r_fetch"]
            /\ UNCHANGED <<ctx, ret, retIsDefault, retFresh>>
  /\ UNCHANGED <<gateVars, weight, used, wake, steps, params, saveFlag, defaultVal>>
  /\ UNCHANGED <<saveArg, resp, cur, prev>>
  /\ UNCHANGED <<respVars, afterFull, ctor>>

\* request lines 249-258: fetch_encoded finds the entry and request returns,
\* or fetch_encoded calls the compute function (_request_func), which goes
\* to the client
Fetch(p) ==
  /\ pc[p] = "r_fetch"
  /\ saveArg' = SaveArgument
  /\ IF CacheContains(cache, params)
       THEN /\ resp' = cache[params]
            /\ log' = log \o <<"fetch", "hit">>
            /\ Return(p, RequestResult(cache[params]))
       ELSE /\ log' = log \o <<"fetch", "compute">>
            /\ pc' = [pc EXCEPT ![p] = "g_net"]
            /\ UNCHANGED <<resp, ctx, ret, retIsDefault, retFresh>>
  /\ UNCHANGED <<gateVars, weight, used, wake, steps, reqVars, taskIdx, cur, prev>>
  /\ UNCHANGED <<respVars, afterFull, ctor>>

\* the compute function returns v, fetch_encoded stores it if asked to and
\* returns it, request lines 255-258 follow
Computed(p) ==
  /\ pc[p] = "r_computed"
  /\ \E v \in Values :
       /\ resp' = v
       /\ cache' = CacheStore(cache, params, v, saveArg)
       /\ log' = log \o steps[p] \o (IF saveArg THEN <<"store">> ELSE <<>>)
       /\ Return(p, RequestResult(v))
  /\ steps' = [steps EXCEPT ![p] = <<>>]
  /\ UNCHANGED <<gateVars, weight, used, wake, params, tasks, saveFlag, defaultVal>>
  /\ UNCHANGED <<taskIdx, saveArg, cur, prev>>
  /\ UNCHANGED <<respVars, afterFull, ctor>>

\* ---------------------------------------------------------- specifications
Init == InitGate /\ InitProcs /\ InitReq

\* the same with a Requestor that nobody uses
InitUnused == Init /\ defaultVal = NoneVal

\* the gate serving limit_request calls whose weight fits the capacity
NextAcquire ==
  \/ \E p \in Procs : \E w \in 0..MaxCalls : CallAcquire(p, w)
  \/ \E p \in Procs : SemAcquire(p)
  \/ \E p \in Procs : SemGrant(p)
  \/ \E p \in Procs : LockAcquire(p)
  \/ \E p \in Procs : LockGrant(p)
  \/ \E p \in Procs : AcquireToken(p)
  \/ \E p \in Procs : AcquireWake(p)
  \/ Tick

SpecAcquire == InitUnused /\ [][NextAcquire]_vars

\* the gate serving limit_request and set_used_tokens calls with any
\* arguments
NextGate ==
  \/ \E p \in Procs : \E w \in Weights : CallAcquire(p, w)
  \/ \E p \in Procs : \E u \in UsedVals : CallSetUsed(p, u)
  \/ \E p \in Procs : SemAcquire(p)
  \/ \E p \in Procs : SemGrant(p)
  \/ \E p \in Procs : LockAcquire(p)
  \/ \E p \in Procs : LockGrant(p)
  \/ \E p \in Procs : AcquireToken(p)
  \/ \E p \in Procs : AcquireWake(p)
  \/ \E p \in Procs : SetUsedTokens(p)
  \/ Tick

SpecGate == InitUnused /\ [][NextGate]_vars

\* the same gate with the arguments at the ends of their ranges: a light
\* and the heaviest weight, nothing used and the most used
NextGateEnds ==
  \/ \E p \in Procs : \E w \in {1, MaxWeight} : CallAcquire(p, w)
  \/ \E p \in Procs : \E u \in {0, MaxUsed} : CallSetUsed(p, u)
  \/ \E p \in Procs : SemAcquire(p)
  \/ \E p \in Procs : SemGrant(p)
  \/ \E p \in Procs : LockAcquire(p)
  \/ \E p \in Procs : LockGrant(p)
  \/ \E p \in Procs : AcquireToken(p)
  \/ \E p \in Procs : AcquireWake(p)
  \/ \E p \in Procs : SetUsedTokens(p)
  \/ Tick

SpecGateEnds == InitUnused /\ [][NextGateEnds]_vars

\* the steps the event loop runs for coroutine p once they are ready: asyncio
\* runs every ready callback, in the order it became ready
GateStep(p) ==
  \/ SemAcquire(p)
  \/ SemGrant(p)
  \/ LockAcquire(p)
  \/ LockGrant(p)
  \/ AcquireToken(p)
  \/ AcquireWake(p)
  \/ SetUsedTokens(p)

\* time advances, and no ready coroutine is left out for ever
FairGate == WF_vars(Tick) /\ \A p \in Procs : WF_vars(GateStep(p))

\* a gate under a running event loop: one coroutine sends requests heavier
\* than the capacity and reports the quota as used up, the others send
\* requests of weight 1, each of them again and again
NextGateLive ==
  \/ \E p \in Procs \ {Caller} : CallAcquire(p, 1)
  \/ CallAcquire(Caller, MaxWeight)
  \/ CallSetUsed(Caller, MaxUsed)
  \/ \E p \in Procs : SemAcquire(p)
  \/ \E p \in Procs : SemGrant(p)
  \/ \E p \in Procs : LockAcquire(p)
  \/ \E p \in Procs : LockGrant(p)
  \/ \E p \in Procs : AcquireToken(p)
  \/ \E p \in Procs : AcquireWake(p)
  \/ \E p \in Procs : SetUsedTokens(p)
  \/ Tick

SpecGateLive == InitUnused /\ [][NextGateLive]_vars /\ FairGate

\* constructions of gates with any arguments
NextConstruct ==
  \E mc \in (0 - MaxArg)..MaxArg : \E per \in (0 - MaxArg)..MaxArg : Construct(mc, per)

SpecConstruct == InitUnused /\ [][NextConstruct]_vars

\* coroutines calling get on one client
NextClient ==
  \/ \E p \in Procs : CallGet(p)
  \/ \E p \in Procs : SessionGet(p)
  \/ \E p \in Procs : SessionResponse(p)
  \/ \E p \in Procs : AdjustRateLimit(p)
  \/ \E p \in Procs : Handle(p)
  \/ \E p \in Procs : ClientReturn(p)
  \/ \E p \in Procs : Propagate(p)
  \/ \E p \in Procs : SemAcquire(p)
  \/ \E p \in Procs : SemGrant(p)
  \/ \E p \in Procs : LockAcquire(p)
  \/ \E p \in Procs : LockGrant(p)
  \/ \E p \in Procs : AcquireToken(p)
  \/ \E p \in Procs : AcquireWake(p)
  \/ \E p \in Procs : SetUsedTokens(p)
  \/ Tick

SpecClient == InitUnused /\ [][NextClient]_vars

\* coroutines calling get, post, put and delete on one client
NextTransport ==
  \/ NextClient
  \/ \E p \in Procs : CallVerb(p)

SpecTransport == InitUnused /\ [][NextTransport]_vars

\* one coroutine using a Requestor
NextRequestor ==
  \/ \E k \in Keys : SetParam(Caller, k)
  \/ \E k \in Keys : DelParam(Caller, k)
  \/ \E b \in BOOLEAN : Save(Caller, b)
  \/ DeleteFromDb(Caller)
  \/ MutateResult(Caller)
  \/ Request(Caller)
  \/ RequestOnly(Caller)
  \/ Contains(Caller)
  \/ AwaitTask(Caller)
  \/ Fetch(Caller)
  \/ Computed(Caller)
  \/ SessionGet(Caller)
  \/ SessionResponse(Caller)
  \/ AdjustRateLimit(Caller)
  \/ Handle(Caller)
  \/ ClientReturn(Caller)
  \/ Propagate(Caller)
  \/ SemAcquire(Caller)
  \/ LockAcquire(Caller)
  \/ AcquireToken(Caller)
  \/ AcquireWake(Caller)
  \/ SetUsedTokens(Caller)
  \/ Tick

SpecRequestor == Init /\ [][NextRequestor]_vars

TypeOK ==
  /\ tokens \in MinTokens..Capacity
  /\ sinceLast \in 0..MaxElapsed
  /\ ret \in Values \cup {NoResult, ConfigError, ReuseError, TransportError}

\* ------------------------------------------------------------- properties
Idle(p) == pc[p] = "idle"
\* some required key is absent from ps
MissingRequired(ps) == \E i \in DOMAIN RequiredParams : RequiredParams[i] \notin ps
IsPrefix(s, t) == Len(s) <= Len(t) /\ \A i \in DOMAIN s : s[i] = t[i]
Raised == ret \in {ConfigError, ReuseError, TransportError}
\* the last Requestor call was `op` and has ended
Ended(op) == Idle(Caller) /\ cur.op = op /\ ret # NoResult
NoClientCall == ~InLog("net") /\ ~InLog("adjust") /\ ~InLog("acquire") /\ steps[Caller] = <<>>
Unawaited == Cardinality({i \in DOMAIN tasks : ~tasks[i]})

\* C1: every get first adjusts the gate, then acquires, then issues the
\* network call, then handles the response; no network call is issued
\* before the acquire of that get has returned.
C1_GetOrder ==
  \A p \in Procs :
    \/ IsPrefix(steps[p], <<"adjust", "acquire", "net", "handle">>)
    \/ IsPrefix(steps[p], <<"acquire", "net", "handle">>)

\* C2: request() with a required parameter missing raises the
\* configuration error, and by then no queued pre-task was awaited, no
\* cache operation was invoked and no client or gate call was made.
C2_MissingParamsRefused ==
  (Idle(Caller) /\ cur.op = "request" /\ MissingRequired(cur.params)) =>
     /\ ret = ConfigError
     /\ log = <<>>
     /\ NoClientCall
     /\ Unawaited = cur.queued
     /\ cache[cur.params] = cur.entry

C2_Witness ==
  /\ Ended("request") /\ ret = ConfigError
  /\ cur.queued > 0
  /\ \E ps \in SUBSET Keys : CacheContains(cache, ps)

\* C3 as stated: whenever the cache held an entry for the params when
\* request() was called with valid params, request() returns that entry and
\* makes no network and no gate call.
C3_HitReturnsEntry ==
  (Ended("request") /\ retFresh /\ ~MissingRequired(cur.params) /\ cur.entry # NoEntry) =>
     /\ ret = cur.entry
     /\ NoClientCall

\* C3 amended: when the cache holds an entry at the moment request()
\* consults it, after the pre-tasks have run, request() makes no network
\* and no gate call and returns the entry if it is non-empty and a copy of
\* the default value otherwise, whatever the save flag.
C3_HitNoClientCall ==
  (Ended("request") /\ retFresh /\ InLog("hit")) =>
     /\ NoClientCall
     /\ ~InLog("compute")
     /\ resp = cache[cur.params]
     /\ ret = (IF Falsy(resp) THEN defaultVal ELSE resp)
     /\ ~retIsDefault

C3_Witness ==
  /\ Ended("request") /\ retFresh /\ InLog("hit")
  /\ ~cur.save
  /\ ~Falsy(resp)

\* C4: with every weight at most the capacity, the token balance is never
\* negative, whatever the interleaving of the limit_request calls.
C4_TokensNeverNegative == tokens >= 0

C4_Witness ==
  /\ tokens = 0 /\ lockHolder = 0 /\ sinceLast = 0
  /\ \E p \in Procs : pc[p] = "a_lockw"

\* C5: never more than max_concurrency get calls have their network call
\* in flight at the same time.
C5_InFlightCapped ==
  Cardinality({p \in Procs : pc[p] = "g_inflight"}) <= MaxConcurrency

\* C6: once request() has returned, the queue of pre-tasks is empty, and a
\* request() that follows completes without awaiting those pre-tasks again.
C6_QueueConsumedOnce ==
  /\ (Ended("request") /\ ~Raised) => tasks = <<>>
  /\ (Ended("request") /\ prev.op = "request" /\ ~prev.raised) => ret # ReuseError

\* C7: when a delete was queued with the required params present and
\* request() then runs, the delete is done before the cache is consulted:
\* the lookup is not a hit and the compute function is invoked.
C7_DeleteBeforeLookup ==
  (Ended("request") /\ ~MissingRequired(cur.params) /\ cur.queued > 0) =>
     /\ InLog("delete")
     /\ InLog("compute")
     /\ ~InLog("hit")

\* C8 as stated: request() never returns an empty or absent result.
C8_NeverEmpty ==
  (Ended("request") /\ ~Raised /\ retFresh) => ~Falsy(ret)

\* C8 amended: whenever the value from the cache or the compute function is
\* empty or absent, request() returns a new object equal to the default
\* value (empty itself when the default is), and nothing the caller does to
\* a returned value changes the stored default, hence what later calls get.
C8_DefaultCopied ==
  /\ []((Ended("request") /\ ~Raised /\ retFresh /\ Falsy(resp)) =>
          (ret = defaultVal /\ ~retIsDefault))
  /\ [][defaultVal' = defaultVal]_vars

C8_Witness ==
  /\ Ended("request") /\ ~Raised /\ Falsy(resp)
  /\ ~retFresh
  /\ ret # defaultVal

C10_RoundTripReturned ==
  (Ended("request_only") /\ prev.op = "request" /\ prev.save
     /\ prev.stored # NoEntry /\ cur.params = prev.params) =>
       ret = prev.stored

\* C10 amended: after a request() with the save flag set has stored v, a
\* request_only() with the same params fetches nothing and returns None,
\* and the entry kept for the params is still v.
C10_RoundTripKept ==
  (Ended("request_only") /\ prev.op = "request" /\ prev.save
     /\ prev.stored # NoEntry /\ cur.params = prev.params) =>
       /\ ret = NoneVal
       /\ log = <<"contains">>
       /\ cache[cur.params] = prev.stored

C10_Witness ==
  /\ Ended("request_only") /\ prev.op = "request" /\ prev.save
  /\ prev.stored # NoEntry /\ ~Falsy(prev.stored)
  /\ cur.params = prev.params

\* C11: request_only() with a required parameter missing raises the
\* configuration error before any cache call, the contains check included,
\* and before any client call, whatever the cache holds.
C11_RequestOnlyRefusedFirst ==
  (Idle(Caller) /\ cur.op = "request_only" /\ MissingRequired(cur.params)) =>
     /\ ret = ConfigError
     /\ log = <<>>
     /\ NoClientCall

\* C12: whatever the outcome, _handle returns the response it was given,
\* and no exception reaches the caller of get, post, put or delete.
C12_NeverRaises ==
  \A p \in Procs :
    /\ pc[p] = "g_done" => got[p] = response[p]
    /\ pc[p] # "x_raised"

\* C13: limit_request(weight) with weight above max_calls never returns
\* having debited the tokens: once inside _acquire_token it stays there.
C13_OverweightNeverSucceeds ==
  [][\A p \in Procs :
       (weight[p] > MaxCalls /\ pc[p] \in {"a_body", "a_sleep"})
          => pc'[p] \in {"a_body", "a_sleep"}]_vars

\* C16: whatever limit_request and set_used_tokens calls were made, the
\* balance stays between 0 and max_calls.
C16_TokensInRange == 0 <= tokens /\ tokens <= Capacity

\* C14: constructing a gate with period <= 0 or max_calls <= 0 is rejected
\* with a configuration error, so no gate with a non-positive capacity or
\* refill rate exists.
C14_BadGateRejected ==
  (ctor.max_calls <= 0 \/ ctor.period <= 0) => ctor.state = "ConfigurationError"

\* C15: delete_from_db() called with a required parameter missing changes
\* neither the queue of pre-tasks nor anything else of the requestor, and a
\* request() that finds no pending pre-task deletes nothing from the cache.
C15_MarkWithoutParamsIsNoOp ==
  /\ [][(DeleteFromDb(Caller) /\ MissingRequired(params)) =>
          UNCHANGED <<params, tasks, saveFlag, defaultVal, cache, gateVars>>]_vars
  /\ []((Idle(Caller) /\ cur.op = "request" /\ cur.queued = 0) => ~InLog("delete"))

C15_Witness ==
  /\ Idle(Caller) /\ cur.op = "delete_from_db"
  /\ MissingRequired(cur.params) /\ cur.params # {}
  /\ tasks # <<>>

InBody(p) == pc[p] \in {"a_body", "a_sleep", "u_body"}

\* C17: _tokens and _last are changed only by a step of the coroutine that
\* holds the lock, at most one coroutine is inside a locked section, and
\* while an acquirer sleeps between its refill and its debit nobody else
\* touches the balance or the refill time.
C17_RefillDebitAtomic ==
  /\ [](\A p \in Procs : InBody(p) => lockHolder = p)
  /\ [][(tokens' # tokens \/ sinceLast' < sinceLast) =>
          /\ lockHolder \in Procs
          /\ InBody(lockHolder)
          /\ pc'[lockHolder] # pc[lockHolder]]_vars
  /\ [][\A p \in Procs :
          (pc[p] = "a_sleep" /\ pc'[p] = "a_sleep") =>
             (tokens' = tokens /\ sinceLast' >= sinceLast)]_vars

C17_Witness ==
  \E p, q \in Procs :
    /\ pc[p] = "a_sleep" /\ lockHolder = p /\ wake[p] = 0
    /\ pc[q] = "u_lockw"
    /\ \E r \in Procs : pc[r] = "a_lockw"

\* C18: a limit_request(1) whose refill directly follows
\* set_used_tokens(max_calls) goes to sleep once before it debits, however
\* old the refill time was when set_used_tokens ran.
C18_FullThenAcquireWaits ==
  [][\A p \in Procs :
       (afterFull /\ pc[p] = "a_body" /\ weight[p] = 1 /\ pc'[p] # "a_body")
          => pc'[p] = "a_sleep"]_vars

InAcquire(p) == pc[p] \in {"a_sem", "a_semw", "a_lock", "a_lockw", "a_body", "a_sleep"}

\* C20: under a running event loop and advancing time every limit_request
\* call returns, whatever its weight and whoever else is using the gate, and
\* a coroutine that is back from the gate holds neither the lock nor a
\* semaphore slot and waits in neither queue.
C20_AcquireReturns ==
  /\ \A p \in Procs : InAcquire(p) ~> Idle(p)
  /\ [](\A p \in Procs :
          Idle(p) => /\ lockHolder # p
                     /\ p \notin semHeld
                     /\ \A i \in DOMAIN lockQ : lockQ[i] # p
                     /\ \A i \in DOMAIN semQ : semQ[i] # p)

C20_Witness ==
  \E p, q, r \in Procs :
    /\ pc[p] = "a_sleep" /\ weight[p] > MaxCalls /\ wake[p] > 0
    /\ pc[q] = "a_lockw"
    /\ pc[r] = "a_semw"
====
